---------------------------- MODULE Spec2Model ----------------------------
(***************************************************************************)
(* Model of the prioritized crawl engine of medex (src/medex/explorer.py): *)
(* Explorer.explore() with its helpers analyze_page, save_page,            *)
(* save_importance_ranking and is_valid_url.                               *)
(*                                                                         *)
(* Conventions.                                                            *)
(*  - A URL string is a sequence of tokens, split at every "/" boundary:   *)
(*    "https://h/a/x.html" is <<"https:","//","h","/","a","/","x.html">>.  *)
(*    The empty string is <<>>.                                            *)
(*  - Scores and priorities are in tenths: 0.3 is 3, 0.8 is 8.             *)
(*  - A Python set is a TLA+ set, and set.pop() removes an arbitrary       *)
(*    member.  A dict is the sequence of its items in insertion order.     *)
(***************************************************************************)
EXTENDS Integers, Sequences, FiniteSets, TLC

(***************************************************************************)
(* Bounds of the model.                                                    *)
(***************************************************************************)
MaxPagesCap == 3      \* MAX_PAGES ranges over 1..MaxPagesCap
MaxLinks == 1         \* length of the classifier's recommended_links
MaxMdLinks == 1       \* number of markdown links in a fetched document
MaxRankingCalls == 2  \* save_importance_ranking calls made on their own

(***************************************************************************)
(* Program constants (tenths).                                             *)
(***************************************************************************)
KEEP_THRESHOLD == 3       \* analysis["importance_score"] > 0.3
LINK_THRESHOLD == 3       \* priority > 0.3
DEFAULT_SCORE == 8        \* fallback importance_score 0.8
EXTRACTED_PRIORITY == 8   \* priority 0.8 of an extracted link

(***************************************************************************)
(* URLs.                                                                   *)
(***************************************************************************)
Schemes == {"https:"}

start_url == <<"https:", "//", "h", "/", "a", "/">>

UrlX == <<"https:", "//", "h", "/", "a", "/", "x.html">>
UrlY == <<"https:", "//", "h", "/", "a", "/", "y">>
UrlB == <<"https:", "//", "h", "/", "b", "/", "x.html">>
UrlO == <<"https:", "//", "o", "/", "a", "/", "x.html">>
UrlRel == <<"/", "a", "/", "x.html">>
EmptyUrl == <<>>

\* the URL strings a classifier may put in a recommended link
LinkUrls == {start_url, UrlX, UrlY, UrlB, UrlO, UrlRel, EmptyUrl}

\* the link targets a fetched document may carry as markdown links
MdTargets == {<<"x.html">>, <<"y">>, UrlO}

startswith(s, p) == Len(p) <= Len(s) /\ SubSeq(s, 1, Len(p)) = p

\* index of the first "/" token of r at or after i, Len(r)+1 when none
RECURSIVE FirstSlash(_, _)
FirstSlash(r, i) ==
    IF i > Len(r) THEN Len(r) + 1
    ELSE IF r[i] = "/" THEN i
    ELSE FirstSlash(r, i + 1)

\* netloc tokens with an unmatched bracket
UnbalancedNetlocs == {"[h"}

\* urllib.parse.urlparse: scheme, netloc and path of a URL string; error is
\* the ValueError("Invalid IPv6 URL") raised for an unmatched bracket
urlparse(url) ==
    LET hasScheme == Len(url) >= 1 /\ url[1] \in Schemes
        r == IF hasScheme THEN Tail(url) ELSE url
    IN  IF Len(r) >= 1 /\ r[1] = "//"
        THEN LET rest == Tail(r)
                 k == FirstSlash(rest, 1)
                 netloc == SubSeq(rest, 1, k - 1)
             IN  [scheme |-> IF hasScheme THEN url[1] ELSE "",
                  netloc |-> netloc,
                  path   |-> SubSeq(rest, k, Len(rest)),
                  error  |-> \E i \in 1..Len(netloc) :
                                netloc[i] \in UnbalancedNetlocs]
        ELSE [scheme |-> IF hasScheme THEN url[1] ELSE "",
              netloc |-> <<>>,
              path   |-> r,
              error  |-> FALSE]

base_domain == urlparse(start_url).netloc

\* variant: host-scoped crawl, the path test is missing
is_valid_url_host_only(url) ==
    LET parsed == urlparse(url)
    IN  IF parsed.error THEN FALSE
        ELSE IF base_domain # parsed.netloc THEN FALSE
        ELSE TRUE

\* Explorer.is_valid_url; the bare except turns a raising urlparse into False
is_valid_url(url) ==
    LET parsed == urlparse(url)
        start_parsed == urlparse(start_url)
    IN  IF parsed.error \/ start_parsed.error THEN FALSE
        ELSE IF base_domain # parsed.netloc THEN FALSE
        ELSE IF ~startswith(parsed.path, start_parsed.path) THEN FALSE
        ELSE TRUE

(***************************************************************************)
(* Links and classifier responses.                                         *)
(***************************************************************************)
\* a recommended link: a dict with url, priority and type, or a bare string
DictLink(u, p, t) == [form |-> "dict", url |-> u, priority |-> p, type |-> t]
StrLink(u) == [form |-> "str", url |-> u, priority |-> 0, type |-> ""]

FOLLOWED_TYPES == {"navigation", "content", "application"}

Priorities == {LINK_THRESHOLD, EXTRACTED_PRIORITY}
LinkTypes == {"navigation", "resource"}

\* the links a classifier response may contain
LinkUniverse ==
    {DictLink(u, EXTRACTED_PRIORITY, "navigation") : u \in LinkUrls}
    \cup {DictLink(UrlX, p, t) : p \in Priorities, t \in LinkTypes}
    \cup {DictLink(UrlY, LINK_THRESHOLD + 1, "navigation")}
    \cup {StrLink(u) : u \in {UrlY, UrlO}}

RECURSIVE SeqsUpTo(_, _)
SeqsUpTo(S, n) ==
    IF n = 0 THEN {<<>>}
    ELSE LET shorter == SeqsUpTo(S, n - 1)
         IN  shorter \cup {Append(q, e) : q \in shorter, e \in S}

\* a fetched document: the targets of the markdown links of its text
Documents == [md_links : SeqsUpTo(MdTargets, MaxMdLinks)]

HtmlFiles == {"x.html"}

\* str.endswith('.html')
endswith_html(s) == Len(s) >= 1 /\ s[Len(s)] \in HtmlFiles

\* index of the last "/" or "//" token of u at or before i, 0 when none
RECURSIVE LastSlash(_, _)
LastSlash(u, i) ==
    IF i = 0 THEN 0
    ELSE IF u[i] \in {"/", "//"} THEN i
    ELSE LastSlash(u, i - 1)

\* '/'.join(self.start_url.split('/')[:-1]) + '/'
base_url == SubSeq(start_url, 1, LastSlash(start_url, Len(start_url)))

\* urllib.parse.urljoin for targets without dot segments
urljoin(base, target) ==
    LET b == urlparse(base)
        t == urlparse(target)
        origin == <<b.scheme, "//">> \o b.netloc
    IN  IF target = <<>> THEN base
        ELSE IF t.scheme # "" THEN target
        ELSE IF t.netloc # <<>> THEN <<b.scheme>> \o target
        ELSE IF target[1] = "/" THEN origin \o target
        ELSE origin \o SubSeq(b.path, 1, LastSlash(b.path, Len(b.path)))
                    \o target

\* analyze_page: the links extracted from the markdown links of the text
RECURSIVE extracted_links(_)
extracted_links(md) ==
    IF md = <<>> THEN <<>>
    ELSE LET link_url == Head(md)
             rest == extracted_links(Tail(md))
         IN  IF endswith_html(link_url)
             THEN <<DictLink(urljoin(base_url, link_url),
                             EXTRACTED_PRIORITY, "navigation")>> \o rest
             ELSE rest

\* the scores a JSON object may carry: at the threshold, just above it, high
Scores == {KEEP_THRESHOLD, KEEP_THRESHOLD + 1, DEFAULT_SCORE}

\* what the query engine does: it raises, or str(response) is a text that
\* is not JSON, JSON that is not an object, a JSON object without the key
\* importance_score, one without the key explorer_tags, or a full object
Response(k, sc, ls) == [kind |-> k, score |-> sc, links |-> ls]

Responses ==
    {Response(k, 0, <<>>) : k \in {"raise", "text", "json_nonobject"}}
    \cup {Response("json_object", sc, ls) :
            sc \in Scores, ls \in SeqsUpTo(LinkUniverse, MaxLinks)}
    \cup {Response("json_no_score", 0, <<>>)}
    \cup {Response("json_no_tags", sc, <<>>) : sc \in Scores}

\* the dict of the except branch of analyze_page
ZeroAssessment ==
    [has_score |-> TRUE, importance_score |-> 0, has_tags |-> TRUE,
     recommended_links |-> <<>>]

\* the dict built when str(response) is not JSON
FallbackAssessment(extracted) ==
    [has_score |-> TRUE, importance_score |-> DEFAULT_SCORE,
     has_tags |-> TRUE, recommended_links |-> extracted]

\* Explorer.analyze_page
analyze_page(doc, response) ==
    LET extracted == extracted_links(doc.md_links)
    IN  CASE response.kind = "raise" -> ZeroAssessment
          [] response.kind = "json_nonobject" -> ZeroAssessment
          [] response.kind = "text" -> FallbackAssessment(extracted)
          [] response.kind \in {"json_object", "json_no_score",
                                "json_no_tags"} ->
                [has_score |-> response.kind # "json_no_score",
                 importance_score |-> response.score,
                 has_tags |-> response.kind # "json_no_tags",
                 recommended_links |-> response.links \o extracted]

(***************************************************************************)
(* State of one Explorer and of its explore() call.                        *)
(***************************************************************************)
VARIABLES
    pc,               \* position of explore(): loop, fetch, analyze, done, raised
    MAX_PAGES,        \* self.MAX_PAGES (500 in the source, scaled down here)
    urls_to_visit,    \* the pending set
    visited_urls,     \* the visited set
    current_url,      \* the URL popped last
    document,         \* documents[0] of the current fetch
    page_importance,  \* self.page_importance, items in insertion order
    pages,            \* URLs whose page artifact {school}/pages/<md5>.json exists
    ranking_doc,      \* {school}/page_importance_ranking.json
    fetches,          \* history: number of loader.aload_data calls per URL
    analyses,         \* history: number of analyze_page calls per URL
    fetch_failed,     \* history: URLs whose fetch returned no document
    visit_order,      \* history: the URLs in the order they were marked visited
    last,             \* history: what the last step of the loop did
    ranking_writes,   \* history: number of save_importance_ranking calls
    rate_log,         \* history: the rate-budget operations performed
    scope,            \* a call of is_valid_url: its argument and its result
    cli               \* position and environment of the CLI main()

vars == <<pc, MAX_PAGES, urls_to_visit, visited_urls, current_url, document,
          page_importance, pages, ranking_doc, fetches, analyses,
          fetch_failed, visit_order, last, ranking_writes, rate_log, scope,
          cli>>

\* the state of the Explorer and of its explore() call
explorer_vars ==
    <<pc, MAX_PAGES, urls_to_visit, visited_urls, current_url, document,
      page_importance, pages, ranking_doc, fetches, analyses, fetch_failed,
      visit_order, last, ranking_writes, rate_log>>

AllUrls == LinkUrls \cup {urljoin(base_url, t) : t \in MdTargets}

NoRanking == [written |-> FALSE, ranking |-> <<>>, total_pages |-> 0]

\* what a step did: the URL, the kind of the classifier response, the score
\* of the analysis, whether the page was kept, the exception raised, the
\* URLs of the analysis' recommended_links, and (set by the analysis step)
\* the recommended_links themselves
Last(ev, u, k, sc, kp, er, rec) ==
    [event |-> ev, url |-> u, kind |-> k, score |-> sc, kept |-> kp,
     error |-> er, recommended |-> rec, links |-> {}]

NoDocument == [md_links |-> <<>>]

\* no call of is_valid_url is in progress
ScopeIdle ==
    [pc |-> "idle", scheme |-> <<>>, netloc |-> <<>>, path |-> <<>>,
     url |-> <<>>, result |-> FALSE]

\* explore() is called directly, not through main()
CliDirect == [pc |-> "direct", api_key |-> "set", beagle |-> FALSE]

\* the state of an Explorer before its first step, at position p, with a
\* page cap of at most cap and the ranking file doc on disk
ExplorerStart(p, cap, doc) ==
    /\ pc = p
    /\ MAX_PAGES \in 1..cap
    /\ urls_to_visit = {start_url}
    /\ visited_urls = {}
    /\ current_url = EmptyUrl
    /\ document = NoDocument
    /\ page_importance = <<>>
    /\ pages = {}
    /\ ranking_doc = doc
    /\ fetches = [u \in AllUrls |-> 0]
    /\ analyses = [u \in AllUrls |-> 0]
    /\ fetch_failed = {}
    /\ visit_order = <<>>
    /\ last = Last("seed", start_url, "none", 0, FALSE, "none", {})
    /\ ranking_writes = 0
    /\ rate_log = <<>>

\* a constructed Explorer at the start of explore()
ExplorerInit == ExplorerStart("loop", MaxPagesCap, NoRanking)

Init ==
    /\ ExplorerInit
    /\ scope = ScopeIdle
    /\ cli = CliDirect

(***************************************************************************)
(* Helpers of the loop body.                                               *)
(***************************************************************************)
\* variant: the cap counts kept pages instead of visited URLs
loop_condition_counts_kept ==
    urls_to_visit # {} /\ Len(page_importance) < MAX_PAGES

\* the condition of the while loop
loop_condition ==
    urls_to_visit # {} /\ Cardinality(visited_urls) < MAX_PAGES

\* variant: the skip test is missing
already_visited_never(url) == FALSE

\* the skip test on a popped URL
already_visited(url) == url \in visited_urls

\* variant: the keep test is not strict
is_kept_at_threshold(analysis) == analysis.importance_score >= KEEP_THRESHOLD

\* variant: every analysed page is kept
is_kept_always(analysis) == TRUE

\* the keep test on an analysis
is_kept(analysis) == analysis.importance_score > KEEP_THRESHOLD

\* variant: a bare string link is added without the scope test
link_is_followed_str_unchecked(link) ==
    IF link.form = "dict"
    THEN /\ link.url # EmptyUrl
         /\ link.priority > LINK_THRESHOLD
         /\ is_valid_url(link.url)
         /\ link.type \in FOLLOWED_TYPES
    ELSE TRUE

\* variant: the priority test is priority >= 0.3
link_is_followed_at_threshold(link) ==
    IF link.form = "dict"
    THEN /\ link.url # EmptyUrl
         /\ link.priority >= LINK_THRESHOLD
         /\ is_valid_url(link.url)
         /\ link.type \in FOLLOWED_TYPES
    ELSE is_valid_url(link.url)

\* the test that guards urls_to_visit.add for one recommended link
link_is_followed(link) ==
    IF link.form = "dict"
    THEN /\ link.url # EmptyUrl
         /\ link.priority > LINK_THRESHOLD
         /\ is_valid_url(link.url)
         /\ link.type \in FOLLOWED_TYPES
    ELSE is_valid_url(link.url)

\* what the enqueue adds for one link
enqueue_one(pending, link) ==
    IF link_is_followed(link) THEN pending \cup {link.url} ELSE pending

\* the for loop over analysis["recommended_links"]
RECURSIVE enqueue_links(_, _)
enqueue_links(pending, links) ==
    IF links = <<>> THEN pending
    ELSE enqueue_links(enqueue_one(pending, Head(links)), Tail(links))

\* d[k] = v on a dict kept as the sequence of its items
dict_set(d, k, v) ==
    IF \E i \in 1..Len(d) : d[i].url = k
    THEN [i \in 1..Len(d) |-> IF d[i].url = k THEN [url |-> k, score |-> v]
                              ELSE d[i]]
    ELSE Append(d, [url |-> k, score |-> v])

\* variant: an ascending sort that is reversed, which reverses ties
RECURSIVE insert_sorted_ties_reversed(_, _)
insert_sorted_ties_reversed(sorted, item) ==
    IF sorted = <<>> THEN <<item>>
    ELSE IF Head(sorted).score > item.score
         THEN <<Head(sorted)>> \o insert_sorted_ties_reversed(Tail(sorted), item)
         ELSE <<item>> \o sorted

\* variant: an item whose score is already ranked is left out
RECURSIVE insert_sorted_drops_ties(_, _)
insert_sorted_drops_ties(sorted, item) ==
    IF sorted = <<>> THEN <<item>>
    ELSE IF Head(sorted).score = item.score THEN sorted
    ELSE IF Head(sorted).score > item.score
         THEN <<Head(sorted)>> \o insert_sorted_drops_ties(Tail(sorted), item)
         ELSE <<item>> \o sorted

\* sorted(): where one more item goes among items sorted by descending score
RECURSIVE insert_sorted(_, _)
insert_sorted(sorted, item) ==
    IF sorted = <<>> THEN <<item>>
    ELSE IF Head(sorted).score >= item.score
         THEN <<Head(sorted)>> \o insert_sorted(Tail(sorted), item)
         ELSE <<item>> \o sorted

\* sorted(self.page_importance.items(), key=score, reverse=True)
RECURSIVE ranked_pages(_)
ranked_pages(items) ==
    IF items = <<>> THEN <<>>
    ELSE insert_sorted(ranked_pages(SubSeq(items, 1, Len(items) - 1)),
                       items[Len(items)])

\* variant: total_pages counts the visited URLs
save_importance_ranking_counts_visited ==
    [written |-> TRUE,
     ranking |-> ranked_pages(page_importance),
     total_pages |-> Cardinality(visited_urls)]

\* variant: the ranking file is opened for appending
save_importance_ranking_appends ==
    [written |-> TRUE,
     ranking |-> ranking_doc.ranking \o ranked_pages(page_importance),
     total_pages |-> Len(page_importance)]

\* Explorer.save_importance_ranking: the document it writes
save_importance_ranking ==
    [written |-> TRUE,
     ranking |-> ranked_pages(page_importance),
     total_pages |-> Len(page_importance)]

RECURSIVE link_urls(_)
link_urls(links) ==
    IF links = <<>> THEN {} ELSE {Head(links).url} \cup link_urls(Tail(links))


(***************************************************************************)
(* The steps of explore().                                                 *)
(***************************************************************************)
\* current_url = urls_to_visit.pop(); skip it when visited, else mark it
Pop ==
    /\ pc = "loop"
    /\ loop_condition
    /\ \E u \in urls_to_visit :
        /\ urls_to_visit' = urls_to_visit \ {u}
        /\ current_url' = u
        /\ IF already_visited(u)
           THEN /\ pc' = "loop"
                /\ visited_urls' = visited_urls
                /\ visit_order' = visit_order
                /\ last' = Last("skip", u, "none", 0, FALSE, "none", {})
           ELSE /\ pc' = "fetch"
                /\ visited_urls' = visited_urls \cup {u}
                /\ visit_order' = Append(visit_order, u)
                /\ last' = Last("pop", u, "none", 0, FALSE, "none", {})
    /\ UNCHANGED <<MAX_PAGES, document, page_importance, pages, ranking_doc,
                   fetches, analyses, fetch_failed, ranking_writes, rate_log,
                   scope, cli>>

\* variant: a failed fetch puts the URL back for a retry
FetchFailRetries ==
    /\ pc = "fetch"
    /\ fetches' = [fetches EXCEPT ![current_url] = @ + 1]
    /\ fetch_failed' = fetch_failed \cup {current_url}
    /\ urls_to_visit' = urls_to_visit \cup {current_url}
    /\ visited_urls' = visited_urls \ {current_url}
    /\ pc' = "loop"
    /\ last' = Last("fetch_failed", current_url, "none", 0, FALSE, "none", {})
    /\ UNCHANGED <<MAX_PAGES, current_url, document, page_importance, pages,
                   ranking_doc, analyses, visit_order, ranking_writes,
                   rate_log, scope, cli>>

\* loader.aload_data returns no document: continue
FetchFail ==
    /\ pc = "fetch"
    /\ fetches' = [fetches EXCEPT ![current_url] = @ + 1]
    /\ fetch_failed' = fetch_failed \cup {current_url}
    /\ pc' = "loop"
    /\ last' = Last("fetch_failed", current_url, "none", 0, FALSE, "none", {})
    /\ UNCHANGED <<MAX_PAGES, urls_to_visit, visited_urls, current_url,
                   document, page_importance, pages, ranking_doc, analyses,
                   visit_order, ranking_writes, rate_log, scope, cli>>

\* loader.aload_data returns documents; the first is the page
FetchOk ==
    /\ pc = "fetch"
    /\ \E doc \in Documents : document' = doc
    /\ fetches' = [fetches EXCEPT ![current_url] = @ + 1]
    /\ pc' = "analyze"
    /\ last' = Last("fetched", current_url, "none", 0, FALSE, "none", {})
    /\ UNCHANGED <<MAX_PAGES, urls_to_visit, visited_urls, current_url,
                   page_importance, pages, ranking_doc, analyses,
                   fetch_failed, visit_order, ranking_writes, rate_log,
                   scope, cli>>

\* analysis = self.analyze_page(document), the keep test, save_page and the
\* enqueue of the recommended links.  The document is dead after the step.
Analyze ==
    /\ pc = "analyze"
    /\ analyses' = [analyses EXCEPT ![current_url] = @ + 1]
    /\ document' = NoDocument
    /\ \E response \in Responses :
        LET analysis == analyze_page(document, response)
            recommended == link_urls(analysis.recommended_links)
            links == {analysis.recommended_links[i] :
                        i \in 1..Len(analysis.recommended_links)}
            analyzed(kp, err) ==
                [Last("analyzed", current_url, response.kind,
                      analysis.importance_score, kp, err, recommended)
                    EXCEPT !.links = links]
            raises(err) ==
                /\ pc' = "raised"
                /\ last' = analyzed(FALSE, err)
                /\ UNCHANGED <<urls_to_visit, page_importance, pages>>
            not_kept ==
                /\ pc' = "loop"
                /\ last' = analyzed(FALSE, "none")
                /\ UNCHANGED <<urls_to_visit, page_importance, pages>>
            kept ==
                /\ pages' = pages \cup {current_url}
                /\ page_importance' =
                       dict_set(page_importance, current_url,
                                analysis.importance_score)
                /\ urls_to_visit' =
                       enqueue_links(urls_to_visit,
                                     analysis.recommended_links)
                /\ pc' = "loop"
                /\ last' = analyzed(TRUE, "none")
        IN  CASE ~analysis.has_score ->
                    \* analysis["importance_score"] raises KeyError
                    raises("KeyError")
              [] analysis.has_score /\ ~is_kept(analysis) ->
                    not_kept
              [] analysis.has_score /\ is_kept(analysis)
                    /\ ~analysis.has_tags ->
                    \* save_page: analysis["explorer_tags"] raises KeyError
                    raises("KeyError")
              [] analysis.has_score /\ is_kept(analysis)
                    /\ analysis.has_tags ->
                    \* save_page: open() or json.dump may raise OSError
                    raises("OSError") \/ kept
    /\ UNCHANGED <<MAX_PAGES, visited_urls, current_url, ranking_doc,
                   fetches, fetch_failed, visit_order, ranking_writes,
                   rate_log, scope, cli>>

\* the loop condition is false: self.save_importance_ranking()
Finalize ==
    /\ pc = "loop"
    /\ ~loop_condition
    /\ ranking_doc' = save_importance_ranking
    /\ ranking_writes' = ranking_writes + 1
    /\ pc' = "done"
    /\ UNCHANGED <<MAX_PAGES, urls_to_visit, visited_urls, current_url,
                   document, page_importance, pages, fetches, analyses,
                   fetch_failed, visit_order, last, rate_log, scope, cli>>

Next == Pop \/ FetchFail \/ FetchOk \/ Analyze \/ Finalize

Spec == Init /\ [][Next]_vars


(***************************************************************************)
(* Properties.                                                             *)
(***************************************************************************)
ImportanceUrls == {page_importance[i].url : i \in 1..Len(page_importance)}

\* position of u in a sequence of URLs, 0 when absent
PosIn(seq, u) ==
    IF \E i \in 1..Len(seq) : seq[i] = u
    THEN CHOOSE i \in 1..Len(seq) : seq[i] = u
    ELSE 0

Analyzed == last.event = "analyzed"

\* C1: no URL is in both visited_urls and urls_to_visit, in any state of
\* explore().
C1_VisitedPendingDisjoint == visited_urls \cap urls_to_visit = {}

\* C2: no URL is fetched or analysed more than once; a URL is in
\* visited_urls before it is fetched, and the URL being fetched has not
\* been fetched before.
C2_NeverAssessedTwice ==
    /\ \A u \in AllUrls :
        /\ fetches[u] <= 1
        /\ analyses[u] <= 1
        /\ analyses[u] <= fetches[u]
        /\ fetches[u] > 0 => u \in visited_urls
    /\ pc = "fetch" =>
        current_url \in visited_urls /\ fetches[current_url] = 0
    /\ pc = "analyze" =>
        current_url \in visited_urls /\ analyses[current_url] = 0

\* C2 witness: a visited, once-fetched URL was popped again and skipped.
C2_Witness ==
    /\ last.event = "skip"
    /\ fetches[last.url] = 1
    /\ last.url \in visited_urls

\* C3: the number of URLs ever popped and marked visited never exceeds
\* MAX_PAGES, whatever became of them; with MAX_PAGES = 1 exactly one URL
\* is assessed and the ranking has at most one entry.
C3_PageCap ==
    /\ Cardinality(visited_urls) <= MAX_PAGES
    /\ Len(visit_order) <= MAX_PAGES
    /\ Cardinality({u \in AllUrls : fetches[u] > 0}) <= MAX_PAGES
    /\ MAX_PAGES = 1 =>
        /\ Len(page_importance) <= 1
        /\ Len(ranking_doc.ranking) <= 1
        /\ pc = "done" => {u \in AllUrls : fetches[u] > 0} = {start_url}

\* C3 witness: the run ended at the cap with a URL still pending, although
\* one of the visited URLs failed to fetch and fewer pages than the cap
\* were kept.
C3_Witness ==
    /\ pc = "done"
    /\ MAX_PAGES = 2
    /\ Cardinality(visited_urls) = MAX_PAGES
    /\ fetch_failed # {}
    /\ Len(page_importance) < MAX_PAGES
    /\ urls_to_visit \ visited_urls # {}

\* C4: the ranking written by save_importance_ranking is sorted by
\* descending score, and of two entries with equal scores the URL the crawl
\* reached (visited and kept) first comes first.
C4_RankingSorted ==
    ranking_doc.written =>
        LET r == ranking_doc.ranking
        IN  \A i, j \in 1..Len(r) :
                i < j =>
                    /\ r[i].score >= r[j].score
                    /\ r[i].score = r[j].score =>
                        /\ PosIn(visit_order, r[i].url)
                            < PosIn(visit_order, r[j].url)
                        /\ PosIn(visit_order, r[i].url) > 0

\* C4 witness: three pages were kept, the first and the third with the
\* same lower score, and the sort moved the second page to the top.
C4_Witness ==
    /\ ranking_doc.written
    /\ Len(ranking_doc.ranking) = 3
    /\ ranking_doc.ranking[1].score > ranking_doc.ranking[2].score
    /\ ranking_doc.ranking[2].score = ranking_doc.ranking[3].score
    /\ ranking_doc.ranking[2].url = page_importance[1].url
    /\ ranking_doc.ranking[3].url = page_importance[3].url

C6_OnlyKeptPagesEnqueue ==
    [][ \/ urls_to_visit' \subseteq urls_to_visit
        \/ /\ last'.event = "analyzed"
           /\ last'.kept
           /\ last'.score > KEEP_THRESHOLD
           /\ last'.url = current_url
           /\ (urls_to_visit' \ urls_to_visit) \subseteq last'.recommended
      ]_vars

\* C6 witness: a page that was not kept recommended an in-scope URL, which
\* is neither pending nor visited.
C6_Witness ==
    /\ Analyzed
    /\ ~last.kept
    /\ last.error = "none"
    /\ UrlX \in last.recommended
    /\ UrlX \notin urls_to_visit \cup visited_urls

\* C7: a classifier response that is not JSON gives the page score 0, the
\* page is not kept, nothing is enqueued and the crawl goes on.
C7_UnparsableIsZero ==
    (Analyzed /\ last.kind = "text") =>
        /\ last.score = 0
        /\ ~last.kept
        /\ last.url \notin pages
        /\ pc # "raised"

\* C8: a classification failure (the classifier raises, or returns JSON
\* that is not an object or lacks importance_score) gives the zero
\* assessment and explore() keeps running.
C8_ClassifyFailureNonFatal ==
    (Analyzed /\ last.kind \in {"raise", "json_nonobject", "json_no_score"})
        => /\ pc \in {"loop", "done"}
           /\ last.score = 0
           /\ ~last.kept

\* C9: a URL whose fetch failed is visited, was fetched once, was never
\* analysed and is not kept; the failing step leaves urls_to_visit as it
\* was and returns to the head of the loop.
C9_FetchFailure ==
    /\ [](/\ \A u \in fetch_failed :
                /\ u \in visited_urls
                /\ fetches[u] = 1
                /\ analyses[u] = 0
                /\ u \notin pages
                /\ u \notin ImportanceUrls
          /\ last.event = "fetch_failed" =>
                pc \in {"loop", "done"} /\ last.url \in fetch_failed)
    /\ [][fetch_failed' # fetch_failed =>
            /\ urls_to_visit' = urls_to_visit
            /\ analyses' = analyses
            /\ pc' = "loop"]_vars

\* C9 witness: after the fetch of one URL failed, another URL was popped
\* and analysed.
C9_Witness ==
    /\ Analyzed
    /\ fetch_failed # {}
    /\ last.url \notin fetch_failed

\* C10: when the fetch of the start URL failed, explore() does not raise,
\* leaves the loop at once, and the ranking document it writes has an empty
\* ranking and total_pages 0.
C10_StartFetchFails ==
    start_url \in fetch_failed =>
        /\ pc \in {"loop", "done"}
        /\ pc = "loop" => ~loop_condition
        /\ pc = "done" =>
            /\ ranking_doc.written
            /\ ranking_doc.ranking = <<>>
            /\ ranking_doc.total_pages = 0

\* C10 witness: the run is over after the start URL failed to fetch.
C10_Witness ==
    /\ pc = "done"
    /\ start_url \in fetch_failed
    /\ ranking_doc.written

\* C11: every explore() run that has ended, whatever failed on the way
\* (fetch, classification, page-artifact write), has written the ranking
\* document.
C11_RankingAlwaysWritten ==
    pc \in {"done", "raised"} => ranking_doc.written

\* C12: a failed write of a kept page's artifact loses that artifact only:
\* explore() is back at the head of its loop and goes on.
C12_WriteFailureNonFatal ==
    (Analyzed /\ last.error = "OSError") => pc \in {"loop", "done"}

\* C13: every URL that is pending or visited has the start URL's host and a
\* path under the start URL's path (it passed is_valid_url); a recommended
\* link to another host is never pending or visited, and the handling of
\* the links of a well-formed analysis raises nothing (the only exception
\* of such a step is the artifact write error of save_page).
C13_OnlyScopedUrlsEnqueued ==
    /\ \A u \in urls_to_visit \cup visited_urls :
        /\ is_valid_url(u)
        /\ urlparse(u).netloc = <<"h">>
        /\ startswith(urlparse(u).path, <<"/", "a", "/">>)
    /\ UrlO \notin urls_to_visit \cup visited_urls
    /\ (Analyzed /\ last.kind = "json_object" /\ last.error # "none") =>
        last.error = "OSError"

\* C13 witness: a kept page recommended a URL of another host; the step
\* returned to the loop and the URL is not pending.
C13_Witness ==
    /\ Analyzed
    /\ last.kept
    /\ pc = "loop"
    /\ UrlO \in last.recommended
    /\ UrlO \notin urls_to_visit

(***************************************************************************)
(* is_valid_url called on its own, on URLs put together from a scheme, a   *)
(* network location and a path.                                            *)
(***************************************************************************)
ScopeSchemes == {<<>>, <<"https:">>}

ScopeNetlocs ==
    {<<>>, <<"//", "h">>, <<"//", "o">>, <<"//", "sub.h">>,
     <<"//", "h:443">>, <<"//", "[h">>}

ScopePaths ==
    {<<>>, <<"/">>, <<"/", "a">>, <<"/", "a", "/">>,
     <<"/", "a", "/", "x.html">>, <<"/", "ab", "/">>,
     <<"/", "b", "/", "x.html">>, <<"x.html">>}

ScopeInit ==
    /\ ExplorerInit
    /\ scope = ScopeIdle
    /\ cli = CliDirect

\* the caller passes a URL string to self.is_valid_url
ScopeCall ==
    /\ scope.pc \in {"idle", "returned"}
    /\ \E s \in ScopeSchemes, n \in ScopeNetlocs, p \in ScopePaths :
        scope' = [pc |-> "called", scheme |-> s, netloc |-> n, path |-> p,
                  url |-> s \o n \o p, result |-> FALSE]
    /\ UNCHANGED <<cli>>
    /\ UNCHANGED explorer_vars

\* is_valid_url returns; it assigns no attribute of the Explorer
ScopeReturn ==
    /\ scope.pc = "called"
    /\ scope' = [scope EXCEPT !.pc = "returned",
                              !.result = is_valid_url(scope.url)]
    /\ UNCHANGED <<cli>>
    /\ UNCHANGED explorer_vars

ScopeNext == ScopeCall \/ ScopeReturn

ScopeSpec == ScopeInit /\ [][ScopeNext]_vars

\* C14: is_valid_url(u) is True exactly when the network location of u is
\* that of the start URL (no subdomain, nothing else) and the path of u
\* begins with the path of the start URL; an unparsable u gives False, and
\* a call changes nothing of the Explorer.
C14_IsValidUrl ==
    [][ scope'.pc = "returned" =>
            /\ scope'.result <=>
                   /\ scope'.netloc = <<"//", "h">>
                   /\ startswith(scope'.path, <<"/", "a", "/">>)
            /\ (\E i \in 1..Len(scope'.netloc) :
                    scope'.netloc[i] \in UnbalancedNetlocs)
                   => ~scope'.result
            /\ UNCHANGED explorer_vars ]_vars

\* a subdomain of the start host with a path under the start path is
\* rejected
C14_Witness ==
    /\ scope.pc = "returned"
    /\ scope.netloc = <<"//", "sub.h">>
    /\ scope.path = <<"/", "a", "/", "x.html">>
    /\ ~scope.result

\* C15: when the start URL is fetched, classified with a score above the
\* keep threshold and one recommended link with the site-relative URL
\* "/a/x.html", priority 0.8 and type navigation, the page is kept and the
\* link is pending afterwards (as written, or resolved against the start
\* URL), to be popped later.
C15_RelativeLinkEnqueued ==
    ( /\ Analyzed
      /\ last.url = start_url
      /\ last.kind = "json_object"
      /\ last.kept
      /\ DictLink(UrlRel, EXTRACTED_PRIORITY, "navigation") \in last.links )
    => /\ start_url \in ImportanceUrls
       /\ \/ UrlRel \in urls_to_visit
          \/ urljoin(start_url, UrlRel) \in urls_to_visit

\* the recommended links of the analysis of the last step that passed the
\* test of the enqueue as dicts, with their priorities
followed_links == {l \in last.links : l.form = "dict" /\ link_is_followed(l)}

\* C16: the pop order is a defined order, so when the page cap is reached by
\* popping a URL that the analysis just before enqueued, no link that the
\* same analysis enqueued with a strictly higher priority is left pending
\* and unvisited.
C16_PopOrder ==
    [][ ( /\ pc = "loop" /\ Analyzed /\ last.kept
          /\ pc' = "fetch"
          /\ Cardinality(visited_urls') >= MAX_PAGES )
        => LET popped == {l \in followed_links : l.url = current_url'}
           IN  popped # {} =>
                 \A hi \in followed_links :
                     hi.url \in urls_to_visit' \ visited_urls' =>
                         \E lo \in popped : lo.priority >= hi.priority
      ]_vars

(***************************************************************************)
(* save_page and save_importance_ranking called on their own, in any       *)
(* order, as a checkpointing caller would.                                 *)
(***************************************************************************)
RankUrls == {start_url, UrlX, UrlY}

\* self.save_page(url, document, analysis) returns: the artifact is written
\* and self.page_importance[url] is set
RankSavePage ==
    /\ \E u \in RankUrls, sc \in Scores :
        /\ pages' = pages \cup {u}
        /\ page_importance' = dict_set(page_importance, u, sc)
        /\ last' = Last("page_saved", u, "none", sc, TRUE, "none", {})
    /\ UNCHANGED <<pc, MAX_PAGES, urls_to_visit, visited_urls, current_url,
                   document, ranking_doc, fetches, analyses, fetch_failed,
                   visit_order, ranking_writes, rate_log, scope, cli>>

\* self.save_importance_ranking() returns
RankSave ==
    /\ ranking_writes < MaxRankingCalls
    /\ ranking_doc' = save_importance_ranking
    /\ ranking_writes' = ranking_writes + 1
    /\ last' = Last("ranking_saved", EmptyUrl, "none", 0, FALSE, "none", {})
    /\ UNCHANGED <<pc, MAX_PAGES, urls_to_visit, visited_urls, current_url,
                   document, page_importance, pages, fetches, analyses,
                   fetch_failed, visit_order, rate_log, scope, cli>>

RankingNext == RankSavePage \/ RankSave

RankingSpec == Init /\ [][RankingNext]_vars

ApiKeys == {"absent", "empty", "set"}

\* a ranking file left by an earlier run
StaleRanking == [written |-> TRUE, ranking |-> <<>>, total_pages |-> 0]

\* variant: main() does not test the credential
has_api_key_unchecked(key) == TRUE

\* the truth value of os.getenv('OPENAI_API_KEY')
has_api_key(key) == key \notin {"absent", "empty"}

\* main() is entered; no Explorer exists yet
CliInit ==
    /\ \E doc \in {NoRanking, StaleRanking} :
           ExplorerStart("none", MaxPagesCap - 2, doc)
    /\ scope = ScopeIdle
    /\ \E key \in ApiKeys :
           cli = [pc |-> "start", api_key |-> key, beagle |-> FALSE]

\* if not os.getenv('OPENAI_API_KEY'): raise ValueError
CliCheckKey ==
    /\ cli.pc = "start"
    /\ cli' = [cli EXCEPT !.pc = IF has_api_key(cli.api_key)
                                 THEN "construct" ELSE "failed"]
    /\ UNCHANGED <<scope>>
    /\ UNCHANGED explorer_vars

\* explorer = Explorer(school, url), then explorer.explore() is entered
CliConstruct ==
    /\ cli.pc = "construct"
    /\ pc = "none"
    /\ pc' = "loop"
    /\ cli' = [cli EXCEPT !.pc = "explore"]
    /\ UNCHANGED <<MAX_PAGES, urls_to_visit, visited_urls, current_url,
                   document, page_importance, pages, ranking_doc, fetches,
                   analyses, fetch_failed, visit_order, last, ranking_writes,
                   rate_log, scope>>

\* a step of explorer.explore()
CliExplore ==
    /\ cli.pc = "explore"
    /\ Next

\* explore() has returned or raised: an exception leaves main(), otherwise
\* Beagle is constructed and run when the ranking file exists
CliAfterExplore ==
    /\ cli.pc = "explore"
    /\ pc \in {"done", "raised"}
    /\ cli' = IF pc = "raised" THEN [cli EXCEPT !.pc = "failed"]
              ELSE IF ranking_doc.written
                   THEN [cli EXCEPT !.pc = "beagle", !.beagle = TRUE]
                   ELSE [cli EXCEPT !.pc = "exit0"]
    /\ UNCHANGED <<scope>>
    /\ UNCHANGED explorer_vars

\* beagle.analyze() returns
CliBeagleDone ==
    /\ cli.pc = "beagle"
    /\ cli' = [cli EXCEPT !.pc = "exit0"]
    /\ UNCHANGED <<scope>>
    /\ UNCHANGED explorer_vars

CliNext ==
    \/ CliCheckKey
    \/ CliConstruct
    \/ CliExplore
    \/ CliAfterExplore
    \/ CliBeagleDone

CliSpec == CliInit /\ [][CliNext]_vars

\* C18: without OPENAI_API_KEY main() ends in failure with no Explorer
\* constructed and no URL fetched; with it, Beagle runs only after explore()
\* has returned and only with the ranking file on disk.
C18_CliOrder ==
    /\ cli.api_key \in {"absent", "empty"} =>
           /\ cli.pc \in {"start", "failed"}
           /\ pc = "none"
           /\ \A u \in AllUrls : fetches[u] = 0
           /\ ~cli.beagle
    /\ cli.beagle =>
           /\ cli.api_key = "set"
           /\ pc = "done"
           /\ ranking_doc.written
           /\ ranking_writes = 1

\* main() has failed on the missing key, nothing constructed
C18_Witness ==
    /\ cli.api_key = "absent"
    /\ cli.pc = "failed"
    /\ pc = "none"

\* how far explore() is from the head of its loop: a fetch is followed by
\* an analysis or the loop head, an analysis by the loop head or the end
pc_rank(p) ==
    CASE p = "fetch" -> 3
      [] p = "analyze" -> 2
      [] p = "loop" -> 1
      [] OTHER -> 0

\* a variant of explore(): first the pages left under the cap, then the
\* position in the iteration, then the size of the pending set
Measure ==
    LET width == Cardinality(AllUrls) + 1
    IN  (MAX_PAGES - Cardinality(visited_urls)) * 4 * width
            + pc_rank(pc) * width
            + Cardinality(urls_to_visit)

\* C19: explore() terminates (every step lowers a non-negative measure),
\* an iteration starts only with a pending URL and fewer than MAX_PAGES
\* visited URLs, and the loop is left only with the pending set empty or
\* MAX_PAGES URLs visited.
C19_LoopTerminates ==
    [][ /\ Measure' < Measure
        /\ Measure' >= 0
        /\ (pc = "loop" /\ pc' \in {"loop", "fetch"}) =>
               /\ urls_to_visit # {}
               /\ Cardinality(visited_urls) < MAX_PAGES
        /\ pc' \in {"done", "raised"} =>
               \/ urls_to_visit' = {}
               \/ Cardinality(visited_urls') >= MAX_PAGES
      ]_vars

\* a rate-budget operation on behalf of a URL, as rate_log would hold it
RateOp(op, u) == [op |-> op, url |-> u]

RateOps == {rate_log[i] : i \in 1..Len(rate_log)}

\* C20: every URL that has been classified had a rate-budget check before
\* the classifier call and a record of the consumed cost after it.
C20_RateBudget ==
    \A u \in AllUrls :
        analyses[u] >= 1 =>
            /\ RateOp("check", u) \in RateOps
            /\ RateOp("record", u) \in RateOps

\* C21: the step that keeps a page adds a URL to the pending set only for a
\* recommended link that is a bare string in scope, or a dict with a
\* non-empty url, a priority above 0.3, a type among navigation, content and
\* application, and a url in scope; a URL carried only by dict links of
\* another type or of priority 0.3 or less is not added; the URL of every
\* bare string link in scope is pending after the step.
C21_EnqueueConditions ==
    [][ (pc = "analyze" /\ pc' = "loop" /\ last'.kept) =>
          LET links == last'.links
              added == urls_to_visit' \ urls_to_visit
              eligible(l) ==
                  \/ l.form = "str" /\ is_valid_url(l.url)
                  \/ /\ l.form = "dict"
                     /\ l.url # <<>>
                     /\ l.priority > 3
                     /\ l.type \in {"navigation", "content", "application"}
                     /\ is_valid_url(l.url)
              excluded(l) ==
                  /\ l.form = "dict"
                  /\ \/ l.type \notin {"navigation", "content", "application"}
                     \/ l.priority <= 3
          IN  /\ urls_to_visit \subseteq urls_to_visit'
              /\ \A u \in added : \E l \in links : l.url = u /\ eligible(l)
              /\ \A u \in AllUrls :
                     ( /\ \E l \in links : l.url = u
                       /\ \A l \in links : l.url = u => excluded(l) )
                     => u \notin added
              /\ \A l \in links :
                     (l.form = "str" /\ is_valid_url(l.url))
                         => l.url \in urls_to_visit'
      ]_vars

\* a kept page recommended an in-scope link of type resource with priority
\* 0.8, and its URL is not pending
C21_Witness ==
    /\ Analyzed /\ last.kept /\ pc = "loop"
    /\ DictLink(UrlX, EXTRACTED_PRIORITY, "resource") \in last.links
    /\ UrlX \notin urls_to_visit

\* the URLs of the entries of the ranking document
RankedUrls == {ranking_doc.ranking[i].url : i \in 1..Len(ranking_doc.ranking)}

\* C22: in the ranking document that explore() writes, total_pages is the
\* length of the ranking array, no URL has two entries, and the ranked URLs
\* are exactly the URLs whose save_page call completed, all of them visited.
C22_RankingConsistent ==
    ranking_doc.written =>
        /\ ranking_doc.total_pages = Len(ranking_doc.ranking)
        /\ \A i, j \in 1..Len(ranking_doc.ranking) :
               ranking_doc.ranking[i].url = ranking_doc.ranking[j].url
                   => i = j
        /\ RankedUrls = pages
        /\ RankedUrls \subseteq visited_urls

\* a ranking of two pages was written after three URLs were visited
C22_Witness ==
    /\ pc = "done"
    /\ ranking_doc.written
    /\ Len(ranking_doc.ranking) = 2
    /\ Cardinality(visited_urls) = 3

=============================================================================
